---- MODULE Spec2Model ----
(***************************************************************************)
(* Model of src/src/ExpanceTracker.jsx: the transaction list, the draft    *)
(* form, the persistence effect and the two derived views (totals and      *)
(* spendingByCategory) of the ExpenseTrackerApp component.                 *)
(*                                                                         *)
(* Numbers are held in thousandths (0.001 = 1, 3.5 = 3500), so that the    *)
(* rounding of toFixed(2) is visible; sums are exact, where the code adds   *)
(* doubles.  Text that the code inspects (description, amount) is a        *)
(* sequence of one-character strings.                                      *)
(***************************************************************************)
EXTENDS Integers, Sequences, FiniteSets, TLC

VARIABLES
    transactions,  \* the value held by useState (line 79): [kind, items]
    form,          \* the draft (line 89)
    storage,       \* localStorage[STORAGE_KEY]: [tag, items]
    lastWrite,     \* the last setItem call of the effect: [arg, ok]
    issued,        \* ids uid() has returned in this session
    alertShown,    \* alert() displayed by the last handler: "none" or which
    roundTrip,     \* history: the add the last handler made, or its undoing
    entry          \* history: the persisted entry found at startup

vars == <<transactions, form, storage, lastWrite, issued, alertShown,
          roundTrip, entry>>

-----------------------------------------------------------------------------
(* Bounds *)

MaxIds == 1

\* new Date().toISOString().slice(0, 10): the session stays within one day
Today == "2024-01-02"

GeneratedIds == {<<"id_", n>> : n \in 1..MaxIds}

DescInputs == {<<>>, <<" ">>, <<" ", "a">>}

AmountInputs ==
    {<<>>, <<"a", "b", "c">>, <<"-", "5">>, <<"0", ".", "0", "0", "1">>,
     <<"3", ".", "5">>}

TypeInputs == {"expense", "income"}

DateInputs == {"", "2024-01-01"}

-----------------------------------------------------------------------------
(* Constants of the program *)

CATEGORIES ==
    <<"Food", "Transport", "Utilities", "Entertainment", "Health", "Shopping",
      "Salary", "Misc">>

CategoryInputs == {CATEGORIES[1], CATEGORIES[2]}

SAMPLE(day) ==
    << [id |-> <<"t", 1>>, description |-> <<"S">>, category |-> "Salary",
        amount |-> 4500000, type |-> "income", date |-> day],
       [id |-> <<"t", 2>>, description |-> <<"G">>, category |-> "Food",
        amount |-> 120500, type |-> "expense", date |-> day],
       [id |-> <<"t", 3>>, description |-> <<"E">>, category |-> "Utilities",
        amount |-> 60000, type |-> "expense", date |-> day] >>

-----------------------------------------------------------------------------
(* Number(text), String.prototype.trim and Number.prototype.toFixed *)

Digits == <<"0", "1", "2", "3", "4", "5", "6", "7", "8", "9">>

IsDigit(c) == \E i \in 1..10 : Digits[i] = c

DigitValue(c) == (CHOOSE i \in 1..10 : Digits[i] = c) - 1

IsSpace(c) == c = " "

RECURSIVE trimStart(_)
trimStart(s) ==
    IF s # <<>> /\ IsSpace(Head(s)) THEN trimStart(Tail(s)) ELSE s

RECURSIVE trimEnd(_)
trimEnd(s) ==
    IF s # <<>> /\ IsSpace(s[Len(s)])
    THEN trimEnd(SubSeq(s, 1, Len(s) - 1))
    ELSE s

trim(s) == trimEnd(trimStart(s))

RECURSIVE DigitsValue(_)
DigitsValue(s) ==
    IF s = <<>> THEN 0
    ELSE 10 * DigitsValue(SubSeq(s, 1, Len(s) - 1)) + DigitValue(s[Len(s)])

AllDigits(s) == \A i \in 1..Len(s) : IsDigit(s[i])

DotAt(s) == {i \in 1..Len(s) : s[i] = "."}

\* the fraction digits as thousandths (texts have at most 3 of them)
FractionValue(f) ==
    DigitsValue(f) * (CASE Len(f) = 0 -> 0
                        [] Len(f) = 1 -> 100
                        [] Len(f) = 2 -> 10
                        [] OTHER -> 1)

NaN == [finite |-> FALSE, v |-> 0]

Finite(m) == [finite |-> TRUE, v |-> m]

\* an unsigned decimal literal: digits, or digits "." digits
UnsignedNumber(s) ==
    IF s = <<>> THEN NaN
    ELSE IF DotAt(s) = {}
    THEN IF AllDigits(s) THEN Finite(1000 * DigitsValue(s)) ELSE NaN
    ELSE LET d == CHOOSE i \in DotAt(s) : TRUE
             int == SubSeq(s, 1, d - 1)
             frac == SubSeq(s, d + 1, Len(s))
         IN  IF Cardinality(DotAt(s)) = 1 /\ AllDigits(int) /\ AllDigits(frac)
                /\ Len(int) + Len(frac) > 0 /\ Len(frac) <= 3
             THEN Finite(1000 * DigitsValue(int) + FractionValue(frac))
             ELSE NaN

\* Number(text): the empty (or blank) text is 0, an unparsable text is NaN
Number(text) ==
    LET s == trim(text)
    IN  IF s = <<>> THEN Finite(0)
        ELSE IF Head(s) = "-"
        THEN LET u == UnsignedNumber(Tail(s))
             IN  IF u.finite THEN Finite(0 - u.v) ELSE NaN
        ELSE IF Head(s) = "+" THEN UnsignedNumber(Tail(s))
        ELSE UnsignedNumber(s)

Abs(m) == IF m < 0 THEN 0 - m ELSE m

\* +x.toFixed(2): the nearest hundredth, a half going away from zero.  For a
\* decimal that ends in 5 thousandths toFixed goes by the binary value of the
\* double; no amount or sum of this model ends so.
toFixed2(m) ==
    LET n == ((Abs(m) + 5) \div 10) * 10
    IN  IF m < 0 THEN 0 - n ELSE n

-----------------------------------------------------------------------------
(* JSON.stringify and JSON.parse of a list of transactions *)

stringifyTransaction(t) ==
    <<t.id, t.description, t.category, t.amount, t.type, t.date>>

JSONstringify(list) ==
    [i \in 1..Len(list) |-> stringifyTransaction(list[i])]

parseTransaction(o) ==
    [id |-> o[1], description |-> o[2], category |-> o[3], amount |-> o[4],
     type |-> o[5], date |-> o[6]]

JSONparse(items) == [i \in 1..Len(items) |-> parseTransaction(items[i])]

Absent == [tag |-> "absent", items |-> <<>>]

Text(list) == [tag |-> "array", items |-> JSONstringify(list)]

Array(list) == [kind |-> "array", items |-> list]

\* the initializer of useState, lines 79-87
initialTransactions(raw, day) ==
    CASE raw.tag = "throws" -> Array(SAMPLE(day))
      [] raw.tag \in {"absent", "empty"} -> Array(SAMPLE(day))
      [] raw.tag = "garbage" -> Array(SAMPLE(day))
      [] raw.tag = "array" -> Array(JSONparse(raw.items))
      [] OTHER -> [kind |-> raw.tag, items |-> <<>>]

initialForm(day) ==
    [description |-> <<>>, category |-> CATEGORIES[1], amount |-> <<>>,
     type |-> "expense", date |-> day]

\* a bug: the effect runs once, at mounting, and never for a changed list
persistOnce(list, ok, old) ==
    [storage |-> old, lastWrite |-> [arg |-> old.items, ok |-> ok]]

\* the effect of lines 97-104: setItem(STORAGE_KEY, JSON.stringify(list))
effectWrite(list) == JSONstringify(list)

\* the effect and what it leaves: the entry, and the call that was made
persist(list, ok, old) ==
    [storage |-> IF ok THEN [tag |-> "array", items |-> effectWrite(list)]
                 ELSE old,
     lastWrite |-> [arg |-> effectWrite(list), ok |-> ok]]

-----------------------------------------------------------------------------
(* Derived views *)

\* the loop of lines 108-114; Number(t.amount) || 0 is t.amount for a number
RECURSIVE totalsLoop(_, _, _)
totalsLoop(list, income, expenses) ==
    IF list = <<>> THEN [income |-> income, expenses |-> expenses]
    ELSE LET t == Head(list)
             amt == t.amount
         IN  IF t.type = "income"
             THEN totalsLoop(Tail(list), income + amt, expenses)
             ELSE totalsLoop(Tail(list), income, expenses + amt)

totals(list) ==
    LET s == totalsLoop(list, 0, 0)
    IN  [income |-> toFixed2(s.income),
         expenses |-> toFixed2(s.expenses),
         balance |-> toFixed2(s.income - s.expenses)]

\* Map.get(k) || 0 and Map.set(k, v); a Map keeps its keys in insertion order
mapGet(map, k) ==
    IF \E i \in 1..Len(map) : map[i].name = k
    THEN map[CHOOSE i \in 1..Len(map) : map[i].name = k].value
    ELSE 0

mapSet(map, k, v) ==
    IF \E i \in 1..Len(map) : map[i].name = k
    THEN [i \in 1..Len(map) |->
              IF map[i].name = k THEN [name |-> k, value |-> v] ELSE map[i]]
    ELSE Append(map, [name |-> k, value |-> v])

\* a bug: the chart counts every transaction
countsAll(transaction) == TRUE

\* line 126: which transactions the chart counts
countsAsSpending(transaction) == transaction.type = "expense"

\* the loop of lines 125-129
RECURSIVE spendingLoop(_, _)
spendingLoop(list, map) ==
    IF list = <<>> THEN map
    ELSE LET transaction == Head(list)
             k == IF transaction.category = "" THEN "Misc"
                  ELSE transaction.category
         IN  IF ~countsAsSpending(transaction)
             THEN spendingLoop(Tail(list), map)
             ELSE spendingLoop(Tail(list),
                               mapSet(map, k, mapGet(map, k) + transaction.amount))

\* line 135: the comparator (a, b) => b.value - a.value, as "a stays before b"
sortsBefore(a, b) == b.value - a.value <= 0

\* Array.prototype.sort is stable: e goes after every entry that sorts before it
RECURSIVE insertSorted(_, _)
insertSorted(arr, e) ==
    IF arr = <<>> THEN <<e>>
    ELSE IF sortsBefore(Head(arr), e)
    THEN <<Head(arr)>> \o insertSorted(Tail(arr), e)
    ELSE <<e>> \o arr

RECURSIVE sortArr(_, _)
sortArr(arr, done) ==
    IF arr = <<>> THEN done
    ELSE sortArr(Tail(arr), insertSorted(done, Head(arr)))

spendingByCategory(list) ==
    LET map == spendingLoop(list, <<>>)
        arr == [i \in 1..Len(map) |->
                    [name |-> map[i].name, value |-> toFixed2(map[i].value)]]
    IN  sortArr(arr, <<>>)

-----------------------------------------------------------------------------
(* Handlers *)

List == transactions.items

\* the component rendered: for...of and .map need an array (lines 110, 415)
Rendered == transactions.kind = "array"

\* uid(), lines 71-75: a UUID or "id_" + time + random text, never a seed id
uid(given) == GeneratedIds \ given

\* a bug: the amount test is amount < 0, and the empty amount (0) passes
validationAllowsZero(f) ==
    LET amount == Number(f.amount)
    IN  IF trim(f.description) = <<>> THEN "description"
        ELSE IF ~amount.finite \/ amount.v < 0 THEN "amount"
        ELSE "none"

\* lines 148-149: which alert, if any, the draft gets
validation(f) ==
    LET amount == Number(f.amount)
    IN  IF trim(f.description) = <<>> THEN "description"
        ELSE IF ~amount.finite \/ amount.v <= 0 THEN "amount"
        ELSE "none"

\* a bug: the payload takes a fixed id instead of uid()
payloadFixedId(f, id, day) ==
    [id |-> <<"t", 1>>,
     description |-> trim(f.description),
     category |-> IF f.category = "" THEN "Misc" ELSE f.category,
     amount |-> toFixed2(Number(f.amount).v),
     type |-> f.type,
     date |-> IF f.date = "" THEN day ELSE f.date]

\* lines 151-158
payloadOf(f, id, day) ==
    [id |-> id,
     description |-> trim(f.description),
     category |-> IF f.category = "" THEN "Misc" ELSE f.category,
     amount |-> toFixed2(Number(f.amount).v),
     type |-> f.type,
     date |-> IF f.date = "" THEN day ELSE f.date]

\* a bug: the new transaction goes last, [...t, payload]
append(payload, t) == t \o <<payload>>

\* line 159
prepend(payload, t) == <<payload>> \o t

\* a bug: a submit resets the whole draft
submittedFormReset(s, day) ==
    [description |-> <<>>, category |-> CATEGORIES[1], amount |-> <<>>,
     type |-> "expense", date |-> day]

\* lines 160-165
submittedForm(s, day) ==
    [s EXCEPT !.description = <<>>, !.amount = <<>>, !.date = day]

\* a bug: the filter keeps the row it should drop, x.id === id
removeAllBut(t, id) == SelectSeq(t, LAMBDA x : x.id = id)

\* line 172
removeById(t, id) == SelectSeq(t, LAMBDA x : x.id # id)

Idle == [phase |-> "idle", id |-> <<"", 0>>, before |-> <<>>]

\* lines 139-142
handleInput(name, value) ==
    /\ Rendered
    /\ form' = [form EXCEPT ![name] = value]
    /\ alertShown' = "none"
    /\ roundTrip' = Idle
    /\ UNCHANGED <<transactions, storage, lastWrite, issued, entry>>

\* lines 144-168, with the effect of lines 97-104 that the new list triggers;
\* ok: whether that effect's setItem succeeds
addTransaction(ok) ==
    /\ Rendered
    /\ IF validation(form) # "none"
       THEN /\ alertShown' = validation(form)
            /\ roundTrip' = Idle
            /\ UNCHANGED <<transactions, form, storage, lastWrite, issued,
                           entry>>
       ELSE \E id \in uid(issued) :
              LET payload == payloadOf(form, id, Today)
                  next == prepend(payload, List)
                  w == persist(next, ok, storage)
              IN  /\ transactions' = Array(next)
                  /\ form' = submittedForm(form, Today)
                  /\ storage' = w.storage
                  /\ lastWrite' = w.lastWrite
                  /\ issued' = issued \cup {id}
                  /\ alertShown' = "none"
                  /\ roundTrip' = [phase |-> "added", id |-> id,
                                   before |-> List]
                  /\ UNCHANGED entry

\* lines 170-173, for the Delete button of a row (line 437), with the effect
deleteTransaction(id, confirmed, ok) ==
    /\ Rendered
    /\ \E i \in 1..Len(List) : List[i].id = id
    /\ alertShown' = "none"
    /\ IF ~confirmed
       THEN /\ roundTrip' = Idle
            /\ UNCHANGED <<transactions, form, storage, lastWrite, issued,
                           entry>>
       ELSE LET next == removeById(List, id)
                w == persist(next, ok, storage)
            IN  /\ transactions' = Array(next)
                /\ storage' = w.storage
                /\ lastWrite' = w.lastWrite
                /\ roundTrip' =
                       IF roundTrip.phase = "added" /\ roundTrip.id = id
                       THEN [roundTrip EXCEPT !.phase = "removed"]
                       ELSE Idle
                /\ UNCHANGED <<form, issued, entry>>

\* lines 464-470, with the effect
clearAll(confirmed, ok) ==
    /\ Rendered
    /\ alertShown' = "none"
    /\ IF ~confirmed
       THEN /\ roundTrip' = Idle
            /\ UNCHANGED <<transactions, form, storage, lastWrite, issued,
                           entry>>
       ELSE LET w == persist(<<>>, ok, storage)
            IN  /\ transactions' = Array(<<>>)
                /\ storage' = w.storage
                /\ lastWrite' = w.lastWrite
                /\ roundTrip' = Idle
                /\ UNCHANGED <<form, issued, entry>>

\* lines 313-321
resetForm ==
    /\ Rendered
    /\ form' = initialForm(Today)
    /\ alertShown' = "none"
    /\ roundTrip' = Idle
    /\ UNCHANGED <<transactions, storage, lastWrite, issued, entry>>

-----------------------------------------------------------------------------
(* Specifications *)

\* the state after the first render and its effect (whose setItem succeeds
\* or not), for a persisted entry raw
Mounted(raw, ok) ==
    LET first == initialTransactions(raw, Today)
        w == persist(first.items, ok, raw)
    IN  /\ entry = raw
        /\ transactions = first
        /\ form = initialForm(Today)
        /\ issued = {}
        /\ alertShown = "none"
        /\ roundTrip = Idle
        /\ IF first.kind = "array"
           THEN storage = w.storage /\ lastWrite = w.lastWrite
           ELSE storage = raw /\ lastWrite = [arg |-> <<>>, ok |-> FALSE]

Rows == {List[i].id : i \in 1..Len(List)}

-----------------------------------------------------------------------------------------------------------------------------------------------------
(* Spec: a session that starts from the seed list, with every list operation
   and a storage that may refuse any write (quota, denied access); the draft
   takes a valid description and two valid amounts *)

Init == \E ok \in BOOLEAN : Mounted(Absent, ok)

ListInputValues(name) ==
    CASE name = "description" -> {<<" ", "a">>}
      [] name = "amount" -> {<<"3", ".", "5">>, <<"0", ".", "0", "0", "1">>}

Next ==
    \/ \E name \in {"description", "amount"} :
         \E value \in ListInputValues(name) : handleInput(name, value)
    \/ \E ok \in BOOLEAN : addTransaction(ok)
    \/ \E id \in Rows, confirmed, ok \in BOOLEAN :
         deleteTransaction(id, confirmed, ok)
    \/ \E confirmed, ok \in BOOLEAN : clearAll(confirmed, ok)
    \/ resetForm

Spec == Init /\ [][Next]_vars

-----------------------------------------------------------------------------
(* SpecForm: the draft with every input of every field, submitted and reset;
   the list only grows *)

InitForm == Mounted(Absent, TRUE)

InputValues(name) ==
    CASE name = "description" -> DescInputs
      [] name = "category" -> CategoryInputs
      [] name = "amount" -> AmountInputs
      [] name = "type" -> TypeInputs
      [] name = "date" -> DateInputs

NextForm ==
    \/ \E name \in {"description", "category", "amount", "type", "date"} :
         \E value \in InputValues(name) : handleInput(name, value)
    \/ addTransaction(TRUE)
    \/ resetForm

SpecForm == InitForm /\ [][NextForm]_vars

-----------------------------------------------------------------------------
(* SpecLoad: a session that starts from any persisted entry; the lists found
   there are then only shrunk, so that the derived views are computed for
   every one of them and for every list that deleting rows leaves *)

MaxRestored == 3

\* amounts with a third decimal, empty and repeated categories, both types
RestoredTransactions ==
    {[id |-> <<"r", 0>>, description |-> <<"x">>, category |-> k[1],
      amount |-> k[2], type |-> k[3], date |-> "2024-01-01"] :
        k \in {<<"", 4, "expense">>, <<"Misc", 1230, "expense">>,
               <<"Food", 4, "expense">>, <<"Food", 1230, "expense">>,
               <<"Food", 4, "income">>, <<"", 1230, "income">>}}

\* lists of at most MaxRestored transactions, the i-th with id <<"r", i>>
RestoredLists ==
    UNION {{[i \in 1..n |-> [f[i] EXCEPT !.id = <<"r", i>>]] :
               f \in [1..n -> RestoredTransactions]} : n \in 0..MaxRestored}

PersistedEntries ==
    {[tag |-> g, items |-> <<>>] :
        g \in {"absent", "throws", "empty", "garbage", "null", "number",
               "object"}}
    \cup {Text(l) : l \in RestoredLists}

\* a storage that cannot be read cannot be written either
InitLoad == \E raw \in PersistedEntries : Mounted(raw, raw.tag # "throws")

NextLoad ==
    \/ \E id \in Rows, confirmed \in BOOLEAN :
         deleteTransaction(id, confirmed, TRUE)
    \/ \E confirmed \in BOOLEAN : clearAll(confirmed, TRUE)

SpecLoad == InitLoad /\ [][NextLoad]_vars

-----
(* Properties *)

Ids == {List[i].id : i \in 1..Len(List)}

DefaultForm == initialForm(Today)

\* the draft fields whose value differs between two drafts
Changed(f, g) == {n \in DOMAIN f : f[n] # g[n]}

\* a is b with some elements left out, the others in their order
RECURSIVE IsSubSeq(_, _)
IsSubSeq(a, b) ==
    IF a = <<>> THEN TRUE
    ELSE IF b = <<>> THEN FALSE
    ELSE IF Head(a) = Head(b) THEN IsSubSeq(Tail(a), Tail(b))
    ELSE IsSubSeq(a, Tail(b))

\* the draft as the claim reads it: nothing but blanks in the description, or
\* an amount that is no finite number or is not above zero
DraftInvalid(f) ==
    \/ \A i \in 1..Len(f.description) : f.description[i] = " "
    \/ ~Number(f.amount).finite
    \/ Number(f.amount).v <= 0

\* a step of a submit: it leaves an alert, or it makes the list longer
SubmitStep == alertShown' # "none" \/ Len(List') > Len(List)

\* C1: every transaction in the list has an amount above zero.
C1_AmountsPositive == \A i \in 1..Len(List) : List[i].amount > 0

C3_InitializeYieldsList ==
    LET first == initialTransactions(entry, Today)
    IN  /\ Rendered
        /\ first.kind = "array"
        /\ entry.tag # "array" => first.items = SAMPLE(Today)
        /\ entry.tag = "array" => first.items = JSONparse(entry.items)

\* C4: the last write issued carries the full current list; when it succeeded
\* the stored text decodes to the list; when it failed the list is still the
\* mutated one (an add stays added) and the next operation is accepted.
C4_PersistenceSync ==
    /\ lastWrite.arg = JSONstringify(List)
    /\ lastWrite.ok => storage.tag = "array" /\ JSONparse(storage.items) = List
    /\ roundTrip.phase = "added" =>
           /\ List # <<>>
           /\ Head(List).id = roundTrip.id
           /\ Tail(List) = roundTrip.before
    /\ ~lastWrite.ok => ENABLED clearAll(TRUE, TRUE)

C4_Witness ==
    /\ ~lastWrite.ok
    /\ roundTrip.phase = "added"
    /\ storage.tag = "array"
    /\ Len(storage.items) < Len(List)

\* C5: a submit of an invalid draft changes neither the list nor any field of
\* the draft, and creates no transaction.
C5_RejectedSubmitChangesNothing ==
    [][(SubmitStep /\ DraftInvalid(form)) =>
           /\ transactions' = transactions
           /\ form' = form
           /\ issued' = issued
           /\ alertShown' # "none"]_vars

C5_Witness ==
    /\ alertShown = "amount"
    /\ form.amount = <<"-", "5">>
    /\ form.category = CATEGORIES[2]
    /\ form.type = "income"
    /\ form.date = ""

\* C6: a successful submit sets description, amount and date of the draft to
\* their defaults and keeps its category and type; a step that changes more
\* than one field of the draft without touching the list (a reset) leaves
\* the default draft.
C6_SubmitKeepsSelections ==
    [][/\ Len(List') > Len(List) =>
              /\ form'.description = <<>>
              /\ form'.amount = <<>>
              /\ form'.date = Today
              /\ form'.category = form.category
              /\ form'.type = form.type
       /\ (transactions' = transactions /\ Cardinality(Changed(form, form')) > 1)
              => form' = DefaultForm]_vars

C6_Witness ==
    /\ roundTrip.phase = "added"
    /\ form.category = CATEGORIES[2]
    /\ form.type = "income"
    /\ form.description = <<>>
    /\ form.amount = <<>>

\* C7: an add followed by the confirmed delete of the added id leaves the
\* list that was there before the add, in content and order.
C7_AddThenDelete == roundTrip.phase = "removed" => List = roundTrip.before

C7_Witness == roundTrip.phase = "removed" /\ Len(List) >= 2

\* C8: a step either leaves the list, or puts one new transaction at
\* position 0 before the unchanged earlier ones, or only takes rows out of
\* it, the remaining ones keeping their order.
C8_PrependAndKeepOrder ==
    [][\/ List' = List
       \/ Len(List') = Len(List) + 1 /\ Tail(List') = List
       \/ Len(List') < Len(List) /\ IsSubSeq(List', List)]_vars

C8_Witness ==
    /\ Len(List) = 3
    /\ List[1].id \in GeneratedIds
    /\ List[2].id = <<"t", 1>>
    /\ List[3].id = <<"t", 3>>

\* C9: the three totals agree exactly: balance = income - expenses, and all
\* three are 0 for the empty list.
C9_TotalsConsistent ==
    LET t == totals(List)
    IN  /\ t.balance = t.income - t.expenses
        /\ List = <<>> => t = [income |-> 0, expenses |-> 0, balance |-> 0]

RECURSIVE SumAmounts(_, _)
SumAmounts(list, S) ==
    IF S = {} THEN 0
    ELSE LET i == CHOOSE i \in S : TRUE
         IN  list[i].amount + SumAmounts(list, S \ {i})

Expenses == {i \in 1..Len(List) : List[i].type = "expense"}

CategoryOf(i) == IF List[i].category = "" THEN "Misc" ELSE List[i].category

\* the breakdown has one entry per category of an expense, in descending
\* order of total, and none without an expense
BreakdownShape(B) ==
    /\ {B[j].name : j \in 1..Len(B)} = {CategoryOf(i) : i \in Expenses}
    /\ Len(B) = Cardinality({CategoryOf(i) : i \in Expenses})
    /\ \A j, k \in 1..Len(B) : j < k => B[j].value >= B[k].value
    /\ Expenses = {} => B = <<>>

\* C10 as stated: one entry per expense category ("" counted as Misc), each
\* total the sum of that category's expense amounts, income left out,
\* descending totals, and an empty breakdown without expenses.
C10_BreakdownExactSums ==
    LET B == spendingByCategory(List)
    IN  /\ BreakdownShape(B)
        /\ \A j \in 1..Len(B) :
               B[j].value =
                   SumAmounts(List, {i \in Expenses : CategoryOf(i) = B[j].name})

\* C10 as amended: the same, each total being that sum rounded to 2 decimals.
C10_BreakdownRoundedSums ==
    LET B == spendingByCategory(List)
    IN  /\ BreakdownShape(B)
        /\ \A j \in 1..Len(B) :
               B[j].value =
                   toFixed2(SumAmounts(List, {i \in Expenses :
                                                  CategoryOf(i) = B[j].name}))

C10_Witness ==
    /\ Len(List) = 3
    /\ List[1].type = "income" /\ List[1].category = "Food"
    /\ List[2].type = "expense" /\ List[2].category = ""
    /\ List[3].type = "expense" /\ List[3].category = "Food"
    /\ List[3].amount > List[2].amount
    /\ Len(spendingByCategory(List)) = 2
    /\ spendingByCategory(List)[1].name = "Food"

====
